---- MODULE Spec2Model ----
(***************************************************************************)
(* Model of minio/datatypes.py: the parsers that turn the XML body of a    *)
(* ListBuckets, ListObjects (V1, V2, versions), ListParts,                 *)
(* ListMultipartUploads and CompleteMultipartUpload response into typed    *)
(* results and derive the pagination cursor.                               *)
(*                                                                         *)
(* Text is a sequence of one-character strings, so that lower(),           *)
(* replace(), int() and unquote() are computed character by character.     *)
(* A Python value is a tagged record: the tag t tells None, str, int and   *)
(* a parsed instant apart, and "raise" stands for an exception thrown      *)
(* while the value was computed.                                           *)
(***************************************************************************)
EXTENDS Integers, Sequences, FiniteSets, TLC

VARIABLES response, call, pc, result

vars == <<response, call, pc, result>>

---------------------------------------------------------------------------
(* Python values *)

None == [t |-> "none", s |-> <<>>, n |-> 0]

StrV(text) == [t |-> "str", s |-> text, n |-> 0]

IntV(k) == [t |-> "int", s |-> <<>>, n |-> k]

Instant(k) == [t |-> "instant", s |-> <<>>, n |-> k]

Dict(items) == [t |-> "dict", s |-> <<>>, n |-> 0, items |-> items]

\* an exception raised while computing a value
Raise == [t |-> "raise", s |-> <<>>, n |-> 0]

\* Python truthiness of a value, as in "if x:"
Truthy(v) ==
    CASE v.t = "none" -> FALSE
      [] v.t = "str" -> v.s # <<>>
      [] v.t = "int" -> v.n # 0
      [] OTHER -> TRUE

\* an entity (a record of values) one of whose fields raised
Raised(rec) == \E f \in DOMAIN rec : rec[f].t = "raise"

\* some entity of a sequence raised
AnyRaised(seq) == \E i \in 1..Len(seq) : Raised(seq[i])

---------------------------------------------------------------------------
(* str methods and builtins used by the parsers *)

UpperCase == <<"A","B","C","D","E","F","G","H","I","J","K","L","M",
               "N","O","P","Q","R","S","T","U","V","W","X","Y","Z">>

LowerCase == <<"a","b","c","d","e","f","g","h","i","j","k","l","m",
               "n","o","p","q","r","s","t","u","v","w","x","y","z">>

LowerChar(c) ==
    IF \E i \in 1..Len(UpperCase) : UpperCase[i] = c
    THEN LowerCase[CHOOSE i \in 1..Len(UpperCase) : UpperCase[i] = c]
    ELSE c

\* str.lower()
lower(text) == [i \in 1..Len(text) |-> LowerChar(text[i])]

RECURSIVE replace(_, _, _)
\* str.replace(old, new) for a one-character old
replace(text, old, new) ==
    IF text = <<>> THEN <<>>
    ELSE (IF Head(text) = old THEN new ELSE <<Head(text)>>)
         \o replace(Tail(text), old, new)

Digits == <<"0","1","2","3","4","5","6","7","8","9">>

IsDigit(c) == \E i \in 1..Len(Digits) : Digits[i] = c

DigitValue(c) == (CHOOSE i \in 1..Len(Digits) : Digits[i] = c) - 1

RECURSIVE DecimalValue(_)
DecimalValue(text) ==
    IF text = <<>> THEN 0
    ELSE 10 * DecimalValue(SubSeq(text, 1, Len(text) - 1))
         + DigitValue(text[Len(text)])

AllDigits(text) == text # <<>> /\ \A i \in 1..Len(text) : IsDigit(text[i])

\* int(text): an optional sign and decimal digits, ValueError otherwise
int(text) ==
    IF AllDigits(text) THEN IntV(DecimalValue(text))
    ELSE IF text # <<>> /\ Head(text) = "-" /\ AllDigits(Tail(text))
    THEN IntV(0 - DecimalValue(Tail(text)))
    ELSE IF text # <<>> /\ Head(text) = "+" /\ AllDigits(Tail(text))
    THEN IntV(DecimalValue(Tail(text)))
    ELSE Raise

\* the percent escapes of the characters the model's keys use
PercentCodes == { <<"2", "0", " ">>, <<"2", "F", "/">>, <<"2", "5", "%">> }

IsEscape(text) ==
    /\ Len(text) >= 3
    /\ text[1] = "%"
    /\ \E code \in PercentCodes : code[1] = text[2] /\ code[2] = text[3]

RECURSIVE unquote(_)
\* urllib.parse.unquote: %XX becomes the character, anything else is kept
unquote(text) ==
    IF text = <<>> THEN <<>>
    ELSE IF IsEscape(text)
    THEN LET code == CHOOSE c \in PercentCodes : c[1] = text[2] /\ c[2] = text[3]
         IN <<code[3]>> \o unquote(SubSeq(text, 4, Len(text)))
    ELSE <<Head(text)>> \o unquote(Tail(text))

---------------------------------------------------------------------------
(* XML documents and the navigation helpers of minio/xml.py *)

\* an element: namespace, local name, text and child elements in document order
Element(ns, tag, text, children) ==
    [ns |-> ns, tag |-> tag, text |-> text, children |-> children]

\* what find() returns when no child matches (Python None)
NoElement == Element("", "#none", <<>>, <<>>)

\* a body that is not well-formed XML
NotWellFormed == Element("", "#not-well-formed", <<>>, <<>>)

\* ET.fromstring(response.data.decode()): the root element. A body is
\* modelled by the element tree it denotes, and a body that is not
\* well-formed by NotWellFormed, on which every parser raises.
ET_fromstring(data) == data

\* findall(element, name): the children with that local name, in document
\* order, whatever their namespace
findall(element, name) ==
    SelectSeq(element.children, LAMBDA child : child.tag = name)

\* find(element, name): the first such child, or None
find(element, name) ==
    IF findall(element, name) = <<>> THEN NoElement
    ELSE findall(element, name)[1]

\* findtext(element, name, strict): the text of the first such child ("" for
\* an empty element), None when there is none; with strict, an absent or
\* empty element raises
findtext(element, name, strict) ==
    IF find(element, name) = NoElement
    THEN IF strict THEN Raise ELSE None
    ELSE IF strict /\ find(element, name).text = <<>> THEN Raise
    ELSE StrV(find(element, name).text)

---------------------------------------------------------------------------
(* helpers.strptime_rfc3339 *)

Stamp2020Z ==
    <<"2","0","2","0","-","0","1","-","0","1","T",
      "0","0",":","0","0",":","0","0","Z">>

Stamp2020Offset ==
    <<"2","0","2","0","-","0","1","-","0","1","T",
      "0","0",":","0","0",":","0","0","+","0","0",":","0","0">>

Stamp2021Frac ==
    <<"2","0","2","1","-","0","1","-","0","1","T",
      "0","0",":","0","0",":","0","0",".","5","Z">>

\* the RFC3339 texts the model uses, each with the instant it denotes
RFC3339Table ==
    { <<Stamp2020Z, 1>>, <<Stamp2020Offset, 1>>, <<Stamp2021Frac, 2>> }

\* strptime_rfc3339(text): the instant, or an error on unparseable text
strptime_rfc3339(text) ==
    IF \E row \in RFC3339Table : row[1] = text
    THEN Instant((CHOOSE row \in RFC3339Table : row[1] = text)[2])
    ELSE Raise

---------------------------------------------------------------------------
(* Bucket and ListAllMyBucketsResult *)

Bucket(name, creation_date) ==
    [name |-> name, creation_date |-> creation_date]

\* mutant: the creation date kept as text, strptime_rfc3339 not applied
Bucket_fromxml_RawDate(bucket) ==
    Bucket(findtext(bucket, "Name", TRUE),
           findtext(bucket, "CreationDate", FALSE))

\* one iteration of the loop of ListAllMyBucketsResult.fromxml
Bucket_fromxml(bucket) ==
    LET name == findtext(bucket, "Name", TRUE)
        creation_date == findtext(bucket, "CreationDate", FALSE)
    IN Bucket(name,
              IF Truthy(creation_date)
              THEN strptime_rfc3339(creation_date.s)
              ELSE creation_date)

ListAllMyBucketsResult_fromxml(root) ==
    LET element == find(root, "Buckets")
        elements == IF element # NoElement
                    THEN findall(element, "Bucket") ELSE <<>>
        buckets == [i \in 1..Len(elements) |-> Bucket_fromxml(elements[i])]
    IN IF root = NotWellFormed \/ AnyRaised(buckets)
       THEN [raised |-> TRUE]
       ELSE [raised |-> FALSE, buckets |-> buckets]

---------------------------------------------------------------------------
(* Object *)

Object(bucket_name, object_name, last_modified, etag, size, metadata, version_id, is_latest, storage_class, owner_id, owner_name, content_type) ==
    [bucket_name |-> bucket_name, object_name |-> object_name,
     last_modified |-> last_modified, etag |-> etag, size |-> size,
     metadata |-> metadata, version_id |-> version_id,
     is_latest |-> is_latest, storage_class |-> storage_class,
     owner_id |-> owner_id, owner_name |-> owner_name,
     content_type |-> content_type]

is_delete_marker(obj) == obj.size = None /\ obj.version_id # None

\* child.text of ElementTree: None for an element without text
child_text(child) == IF child.text = <<>> THEN None ELSE StrV(child.text)

\* the metadata mapping: the local name of each child of UserMetadata to its
\* text, a later child replacing an earlier one of the same name
UserMetadata(element) ==
    LET tag == IF find(element, "UserMetadata") = NoElement THEN <<>>
               ELSE find(element, "UserMetadata").children
        keys == {tag[i].tag : i \in 1..Len(tag)}
        last(key) == CHOOSE i \in 1..Len(tag) :
                        /\ tag[i].tag = key
                        /\ \A j \in (i + 1)..Len(tag) : tag[j].tag # key
    IN Dict([key \in keys |-> child_text(tag[last(key)])])

\* tag = findtext(element, "LastModified"); None or strptime_rfc3339(tag)
Object_last_modified(element) ==
    LET tag == findtext(element, "LastModified", FALSE)
    IN IF tag = None THEN None ELSE strptime_rfc3339(tag.s)

\* mutant: the ETag text kept with its quotes
Object_etag_Quoted(element) == findtext(element, "ETag", FALSE)

\* tag = findtext(element, "ETag"); None or tag.replace('"', "")
Object_etag(element) ==
    LET tag == findtext(element, "ETag", FALSE)
    IN IF tag = None THEN None ELSE StrV(replace(tag.s, "\"", <<>>))

\* mutant: a missing Size defaults to zero
Object_size_ZeroDefault(element) ==
    LET tag == findtext(element, "Size", FALSE)
    IN IF tag = None THEN IntV(0) ELSE int(tag.s)

\* tag = findtext(element, "Size"); None or int(tag)
Object_size(element) ==
    LET tag == findtext(element, "Size", FALSE)
    IN IF tag = None THEN None ELSE int(tag.s)

\* owner_id and owner_name: name is "ID" or "DisplayName"
Object_owner(element, name) ==
    LET tag == find(element, "Owner")
    IN IF tag = NoElement THEN None ELSE findtext(tag, name, FALSE)

Object_fromxml(element, bucket_name) ==
    Object(bucket_name,
           findtext(element, "Key", FALSE),
           Object_last_modified(element),
           Object_etag(element),
           Object_size(element),
           UserMetadata(element),
           findtext(element, "VersionId", FALSE),
           findtext(element, "IsLatest", FALSE),
           findtext(element, "StorageClass", FALSE),
           Object_owner(element, "ID"),
           Object_owner(element, "DisplayName"),
           None)

---------------------------------------------------------------------------
(* parse_list_objects *)

FromXmlAll(elements, bucket_name) ==
    [i \in 1..Len(elements) |-> Object_fromxml(elements[i], bucket_name)]

\* the entries built from Contents elements
list_objects_contents(element, bucket_name) ==
    FromXmlAll(findall(element, "Contents"), bucket_name)

\* marker = objects[-1].object_name if objects else None
list_objects_marker(element, bucket_name) ==
    LET objects == list_objects_contents(element, bucket_name)
    IN IF objects # <<>> THEN objects[Len(objects)].object_name ELSE None

\* mutant: the CommonPrefixes element parsed like an object entry
PrefixObject_FromXml(tag, bucket_name) == Object_fromxml(tag, bucket_name)

\* a directory placeholder built from a CommonPrefixes element
PrefixObject(tag, bucket_name) ==
    Object(bucket_name, findtext(tag, "Prefix", FALSE),
           None, None, None, None, None, None, None, None, None, None)

list_objects_prefixes(element, bucket_name) ==
    LET elements == findall(element, "CommonPrefixes")
    IN [i \in 1..Len(elements) |-> PrefixObject(elements[i], bucket_name)]

\* mutant: the common prefixes are appended before the versions
list_objects_objects_PrefixesFirst(element, bucket_name) ==
    list_objects_contents(element, bucket_name)
    \o list_objects_prefixes(element, bucket_name)
    \o FromXmlAll(findall(element, "Version"), bucket_name)
    \o FromXmlAll(findall(element, "DeleteMarker"), bucket_name)

\* the objects list once every kind has been appended
list_objects_objects(element, bucket_name) ==
    list_objects_contents(element, bucket_name)
    \o FromXmlAll(findall(element, "Version"), bucket_name)
    \o list_objects_prefixes(element, bucket_name)
    \o FromXmlAll(findall(element, "DeleteMarker"), bucket_name)

TextOrEmpty(v) == IF Truthy(v) THEN v.s ELSE <<>>

\* mutant: the comparison with "true" without lower()
list_objects_is_truncated_CaseSensitive(element) ==
    TextOrEmpty(findtext(element, "IsTruncated", FALSE)) = <<"t","r","u","e">>

\* (findtext(element, "IsTruncated") or "").lower() == "true"
list_objects_is_truncated(element) ==
    lower(TextOrEmpty(findtext(element, "IsTruncated", FALSE)))
        = <<"t","r","u","e">>

\* mutant: NextContinuationToken takes precedence over NextKeyMarker
list_objects_continuation_token_TokenFirst(element, is_truncated, marker) ==
    LET key_marker == findtext(element, "NextKeyMarker", FALSE)
        token == findtext(element, "NextContinuationToken", FALSE)
        token1 == IF token = None THEN key_marker ELSE token
        token2 == IF token1 = None
                  THEN findtext(element, "NextMarker", FALSE) ELSE token1
    IN IF token2 = None /\ is_truncated THEN marker ELSE token2

list_objects_continuation_token(element, is_truncated, marker) ==
    LET key_marker == findtext(element, "NextKeyMarker", FALSE)
        token == findtext(element, "NextContinuationToken", FALSE)
        token1 == IF key_marker # None THEN key_marker ELSE token
        token2 == IF token1 = None
                  THEN findtext(element, "NextMarker", FALSE) ELSE token1
    IN IF token2 = None /\ is_truncated THEN marker ELSE token2

parse_list_objects(resp, bucket_name) ==
    LET element == ET_fromstring(resp.data)
        objects == list_objects_objects(element, bucket_name)
        marker == list_objects_marker(element, bucket_name)
        is_truncated == list_objects_is_truncated(element)
        version_id_marker == findtext(element, "NextVersionIdMarker", FALSE)
        continuation_token ==
            list_objects_continuation_token(element, is_truncated, marker)
    IN IF element = NotWellFormed \/ AnyRaised(objects)
       THEN [raised |-> TRUE]
       ELSE [raised |-> FALSE,
             objects |-> objects,
             is_truncated |-> is_truncated,
             continuation_token |-> continuation_token,
             version_id_marker |-> version_id_marker]

---------------------------------------------------------------------------
(* CompleteMultipartUploadResult *)

\* response.getheader(name): the value of the first header of that name
getheader(resp, name) ==
    LET found == SelectSeq(resp.headers, LAMBDA h : h[1] = name)
    IN IF found = <<>> THEN None ELSE StrV(found[1][2])

\* self._etag = findtext(element, "ETag"); if self._etag: strip the quotes
CompleteMultipartUploadResult_etag(element) ==
    LET etag == findtext(element, "ETag", FALSE)
    IN IF Truthy(etag) THEN StrV(replace(etag.s, "\"", <<>>)) ELSE etag

CompleteMultipartUploadResult(resp) ==
    LET element == ET_fromstring(resp.data)
    IN IF element = NotWellFormed
       THEN [raised |-> TRUE]
       ELSE [raised |-> FALSE,
             bucket_name |-> findtext(element, "Bucket", FALSE),
             object_name |-> findtext(element, "Key", FALSE),
             location |-> findtext(element, "Location", FALSE),
             etag |-> CompleteMultipartUploadResult_etag(element),
             version_id |-> getheader(resp, "x-amz-version-id"),
             http_headers |-> resp.headers]

---------------------------------------------------------------------------
(* Part and ListPartsResult *)

Part(part_number, etag, last_modified, size) ==
    [part_number |-> part_number, etag |-> etag,
     last_modified |-> last_modified, size |-> size]

\* part_number = findtext(element, "PartNumber", True)
Part_part_number(element) == findtext(element, "PartNumber", TRUE)

\* etag = findtext(element, "ETag", True); etag = etag.replace('"', "")
Part_etag(element) ==
    LET etag == findtext(element, "ETag", TRUE)
    IN IF etag = Raise THEN Raise ELSE StrV(replace(etag.s, "\"", <<>>))

\* size = findtext(element, "Size"); if size: size = int(size)
Part_size(element) ==
    LET size == findtext(element, "Size", FALSE)
    IN IF Truthy(size) THEN int(size.s) ELSE size

Part_fromxml(element) ==
    LET tag == findtext(element, "LastModified", FALSE)
        last_modified == IF tag = None THEN None ELSE strptime_rfc3339(tag.s)
    IN Part(Part_part_number(element), Part_etag(element), last_modified,
            Part_size(element))

\* findtext(tag, name) under an optional parent element
SubText(element, parent, name) ==
    IF find(element, parent) = NoElement THEN None
    ELSE findtext(find(element, parent), name, FALSE)

\* x = findtext(...); if x: x = int(x)
IntIfTruthy(v) == IF Truthy(v) THEN int(v.s) ELSE v

\* x = findtext(element, "IsTruncated"); x is not None and x.lower() == "true"
ListPartsResult_is_truncated(element) ==
    LET is_truncated == findtext(element, "IsTruncated", FALSE)
    IN is_truncated # None /\ lower(is_truncated.s) = <<"t","r","u","e">>

ListPartsResult(resp) ==
    LET element == ET_fromstring(resp.data)
        elements == findall(element, "Part")
        r == [bucket_name |-> findtext(element, "Bucket", FALSE),
              object_name |-> findtext(element, "Key", FALSE),
              initiator_id |-> SubText(element, "Initiator", "ID"),
              initiator_name |-> SubText(element, "Initiator", "DisplayName"),
              owner_id |-> SubText(element, "Owner", "ID"),
              owner_name |-> SubText(element, "Owner", "DisplayName"),
              storage_class |-> findtext(element, "StorageClass", FALSE),
              part_number_marker |->
                  findtext(element, "PartNumberMarker", FALSE),
              next_part_number_marker |->
                  IntIfTruthy(findtext(element, "NextPartNumberMarker", FALSE)),
              max_parts |-> IntIfTruthy(findtext(element, "MaxParts", FALSE))]
        parts == [i \in 1..Len(elements) |-> Part_fromxml(elements[i])]
    IN IF element = NotWellFormed \/ Raised(r) \/ AnyRaised(parts)
       THEN [raised |-> TRUE]
       ELSE [raised |-> FALSE, fields |-> r,
             is_truncated |-> ListPartsResult_is_truncated(element),
             parts |-> parts]

---------------------------------------------------------------------------
(* Upload and ListMultipartUploadsResult *)

\* x = findtext(...); if x: x = unquote(x)
UnquoteIfTruthy(v) == IF Truthy(v) THEN StrV(unquote(v.s)) ELSE v

Upload(element) ==
    LET key == findtext(element, "Key", TRUE)
        initiated_time == findtext(element, "Initiated", FALSE)
    IN [object_name |-> IF key = Raise THEN Raise ELSE StrV(unquote(key.s)),
        upload_id |-> findtext(element, "UploadId", FALSE),
        initiator_id |-> SubText(element, "Initiator", "ID"),
        initiator_name |-> SubText(element, "Initiator", "DisplayName"),
        owner_id |-> SubText(element, "Owner", "ID"),
        owner_name |-> SubText(element, "Owner", "DisplayName"),
        storage_class |-> findtext(element, "StorageClass", FALSE),
        initiated_time |-> IF Truthy(initiated_time)
                           THEN strptime_rfc3339(initiated_time.s)
                           ELSE initiated_time]

ListMultipartUploadsResult_is_truncated(element) ==
    LET is_truncated == findtext(element, "IsTruncated", FALSE)
    IN is_truncated # None /\ lower(is_truncated.s) = <<"t","r","u","e">>

ListMultipartUploadsResult(resp) ==
    LET element == ET_fromstring(resp.data)
        elements == findall(element, "Upload")
        r == [bucket_name |-> findtext(element, "Bucket", FALSE),
              key_marker |->
                  UnquoteIfTruthy(findtext(element, "KeyMarker", FALSE)),
              upload_id_marker |-> findtext(element, "UploadIdMarker", FALSE),
              next_key_marker |->
                  UnquoteIfTruthy(findtext(element, "NextKeyMarker", FALSE)),
              next_upload_id_marker |->
                  findtext(element, "NextUploadIdMarker", FALSE),
              max_uploads |->
                  IntIfTruthy(findtext(element, "MaxUploads", FALSE))]
        uploads == [i \in 1..Len(elements) |-> Upload(elements[i])]
    IN IF element = NotWellFormed \/ Raised(r) \/ AnyRaised(uploads)
       THEN [raised |-> TRUE]
       ELSE [raised |-> FALSE, fields |-> r,
             is_truncated |-> ListMultipartUploadsResult_is_truncated(element),
             uploads |-> uploads]

---------------------------------------------------------------------------
(* The responses the parsers are applied to *)

\* the longest sequence of repeated child elements in a generated document
MaxEntries == 3

\* the sequences over S of length at most k
SeqsUpTo(S, k) == UNION {[1..len -> S] : len \in 0..k}

\* an optional text: <<>> when the element is missing, <<text>> when present
Optional(S) == {<<>>} \cup {<<text>> : text \in S}

\* the element children an optional text gives: none, or one leaf element
Leaf(ns, tag, opt) ==
    IF opt = <<>> THEN <<>> ELSE <<Element(ns, tag, opt[1], <<>>)>>

\* an optional Owner or Initiator element: 0 = missing, 1 = empty,
\* 2 = with ID only, 3 = with ID and DisplayName
Person(ns, tag, shape) ==
    CASE shape = 0 -> <<>>
      [] shape = 1 -> <<Element(ns, tag, <<>>, <<>>)>>
      [] shape = 2 -> <<Element(ns, tag, <<>>,
                                <<Element(ns, "ID", <<"i","d">>, <<>>)>>)>>
      [] OTHER -> <<Element(ns, tag, <<>>,
                            <<Element(ns, "ID", <<"i","d">>, <<>>),
                              Element(ns, "DisplayName", <<"m","e">>, <<>>)>>)>>

Response(api, data, headers) ==
    [api |-> api, data |-> data, headers |-> headers]

TruncatedTexts ==
    { <<>>, <<"t","r","u","e">>, <<"T","R","U","E">>, <<"T","r","u","e">>,
      <<"f","a","l","s","e">>, <<"t","r","u","e","x">> }

SizeTexts == { <<>>, <<"0">>, <<"1","2">>, <<"x">> }

StampTexts == { <<>>, Stamp2020Z, Stamp2020Offset, Stamp2021Frac, <<"x">> }

ETagTexts == { <<>>, <<"\"","e","1","\"">>, <<"e","\"","2">>, <<"e","3">> }

KeyTexts == { <<"a">>, <<"z","/">> }

(* object listings *)

\* an entry of an object listing with only its name and what tells the
\* kinds apart
LightEntry(kind, key) ==
    CASE kind = "Contents" ->
           Element("", kind, <<>>,
                   Leaf("", "Key", key) \o Leaf("", "Size", <<<<"1","2">>>>))
      [] kind = "Version" ->
           Element("", kind, <<>>,
                   Leaf("", "Key", key) \o Leaf("", "VersionId", <<<<"v","1">>>>)
                   \o Leaf("", "Size", <<<<"0">>>>))
      [] kind = "DeleteMarker" ->
           Element("", kind, <<>>,
                   Leaf("", "Key", key) \o Leaf("", "VersionId", <<<<"v","2">>>>))
      [] OTHER ->
           Element("", kind, <<>>, Leaf("", "Prefix", key))

\* the entries the pages are made of: every kind, Contents and Version
\* with two names, Contents and CommonPrefixes also without a name
LightEntries ==
    {LightEntry("Contents", key) : key \in Optional(KeyTexts)}
    \cup {LightEntry("Version", <<key>>) : key \in KeyTexts}
    \cup {LightEntry("CommonPrefixes", key) : key \in Optional({<<"z","/">>})}
    \cup {LightEntry("DeleteMarker", <<<<"a">>>>)}

\* the pagination fields of an object listing
ListObjectsHeader(it, nkm, nct, nm, nvim) ==
    Leaf("", "IsTruncated", it) \o Leaf("", "NextKeyMarker", nkm)
    \o Leaf("", "NextContinuationToken", nct) \o Leaf("", "NextMarker", nm)
    \o Leaf("", "NextVersionIdMarker", nvim)

\* entries in any interleaving, with the common pagination fields
ListObjectsPages ==
    \E it \in Optional({<<"t","r","u","e">>, <<"f","a","l","s","e">>}),
       nkm \in Optional({<<"k","1">>}),
       nct \in Optional({<<"t","1">>}),
       nm \in Optional({<<"m","1">>}),
       entries \in SeqsUpTo(LightEntries, MaxEntries) :
        response =
            Response("objects",
                     Element("", "ListBucketResult", <<>>,
                             ListObjectsHeader(it, nkm, nct, nm, <<>>)
                             \o entries),
                     <<>>)

\* every combination of pagination fields, over no entry or one Contents
ListObjectsHeaders ==
    \E it \in Optional(TruncatedTexts),
       nkm \in Optional({<<>>, <<"k","1">>}),
       nct \in Optional({<<>>, <<"t","1">>}),
       nm \in Optional({<<>>, <<"m","1">>}),
       nvim \in Optional({<<"v","9">>}),
       entries \in {<<>>, <<LightEntry("Contents", <<<<"z","z","z">>>>)>>} :
        response =
            Response("objects",
                     Element("", "ListBucketResult", <<>>,
                             entries
                             \o ListObjectsHeader(it, nkm, nct, nm, nvim)),
                     <<>>)

\* the UserMetadata container that goes with a storage class, if any
MetadataFor(ns, sc) ==
    IF sc = <<>> THEN <<>>
    ELSE <<Element(ns, "UserMetadata", <<>>,
                   <<Element(ns, "k", <<"1">>, <<>>),
                     Element(ns, "e", <<>>, <<>>),
                     Element(ns, "k", <<"2">>, <<>>)>>)>>

\* one entry with every combination of its optional fields
ListObjectsEntities ==
    \E kind \in {"Contents", "Version"},
       key \in Optional({<<"a">>}),
       lm \in Optional({<<>>, Stamp2020Z, <<"x">>}),
       etag \in Optional(ETagTexts),
       size \in Optional(SizeTexts),
       owner \in 0..3,
       vid \in Optional({<<"v","1">>}),
       sc \in Optional({<<"S","T","D">>}) :
        response =
            Response("objects",
                     Element("s3", "ListBucketResult", <<>>,
                         <<Element("s3", kind, <<>>,
                             Leaf("s3", "Key", key)
                             \o Leaf("s3", "LastModified", lm)
                             \o Leaf("s3", "ETag", etag)
                             \o Leaf("s3", "Size", size)
                             \o Person("s3", "Owner", owner)
                             \o Leaf("s3", "VersionId", vid)
                             \o Leaf("s3", "IsLatest", vid)
                             \o Leaf("s3", "StorageClass", sc)
                             \o MetadataFor("s3", sc))>>),
                     <<>>)

ListObjectsResponses ==
    ListObjectsPages \/ ListObjectsHeaders \/ ListObjectsEntities

(* bucket listings *)

BucketElements ==
    {Element(ns, "Bucket", <<>>,
             Leaf(ns, "Name", name) \o Leaf(ns, "CreationDate", date)) :
        ns \in {"s3"},
        name \in Optional({<<"a">>, <<"b">>}),
        date \in Optional({<<>>, Stamp2020Z, <<"x">>})}

ListBucketsResponses ==
    \/ \E buckets \in SeqsUpTo(BucketElements, MaxEntries) :
        response =
            Response("buckets",
                     Element("s3", "ListAllMyBucketsResult", <<>>,
                             Person("s3", "Owner", 3)
                             \o <<Element("s3", "Buckets", <<>>, buckets)>>),
                     <<>>)
    \/ \E owner \in 0..3 :
        response =
            Response("buckets",
                     Element("s3", "ListAllMyBucketsResult", <<>>,
                             Person("s3", "Owner", owner)),
                     <<>>)
    \/ \E ns \in {"", "s3"},
          name \in Optional({<<>>, <<"a">>}),
          date \in Optional(StampTexts) :
        response =
            Response("buckets",
                Element(ns, "ListAllMyBucketsResult", <<>>,
                    <<Element(ns, "Buckets", <<>>,
                        <<Element(ns, "Bucket", <<>>,
                                  Leaf(ns, "CreationDate", date)
                                  \o Leaf(ns, "Name", name))>>)>>),
                <<>>)

(* part listings *)

LightParts ==
    {Element("", "Part", <<>>,
             Leaf("", "PartNumber", number) \o Leaf("", "ETag", etag)) :
        number \in Optional({<<"1">>, <<"2">>}),
        etag \in Optional({<<"\"","e","1","\"">>})}

ListPartsHeader(it, marker, next, max, initiator, owner) ==
    Leaf("", "Bucket", <<<<"b">>>>) \o Leaf("", "Key", <<<<"a">>>>)
    \o Person("", "Initiator", initiator) \o Person("", "Owner", owner)
    \o Leaf("", "PartNumberMarker", marker)
    \o Leaf("", "NextPartNumberMarker", next)
    \o Leaf("", "MaxParts", max) \o Leaf("", "IsTruncated", it)

ListPartsResponses ==
    \/ \E it \in Optional({<<"t","r","u","e">>}),
          parts \in SeqsUpTo(LightParts, MaxEntries) :
        response =
            Response("parts",
                     Element("", "ListPartsResult", <<>>,
                             ListPartsHeader(it, <<>>, <<>>, <<>>, 0, 0)
                             \o parts),
                     <<>>)
    \/ \E it \in Optional(TruncatedTexts),
          next \in Optional({<<>>, <<"0">>, <<"2">>, <<"x">>}),
          max \in Optional({<<>>, <<"1","0">>}),
          person \in 0..3 :
        response =
            Response("parts",
                     Element("", "ListPartsResult", <<>>,
                             ListPartsHeader(it, next, next, max, person,
                                             3 - person)),
                     <<>>)
    \/ \E number \in Optional({<<>>, <<"1">>, <<"x">>}),
          etag \in Optional(ETagTexts),
          lm \in Optional(StampTexts),
          size \in Optional(SizeTexts) :
        response =
            Response("parts",
                     Element("", "ListPartsResult", <<>>,
                         <<Element("", "Part", <<>>,
                             Leaf("", "PartNumber", number)
                             \o Leaf("", "LastModified", lm)
                             \o Leaf("", "ETag", etag)
                             \o Leaf("", "Size", size))>>),
                     <<>>)

(* multipart-upload listings *)

LightUploads ==
    {Element("", "Upload", <<>>,
             Leaf("", "Key", key) \o Leaf("", "UploadId", <<<<"u","1">>>>)) :
        key \in Optional({<<"a">>, <<"m","y","%","2","0","k">>})}

ListUploadsHeader(it, marker, next, max) ==
    Leaf("", "Bucket", marker) \o Leaf("", "KeyMarker", marker)
    \o Leaf("", "UploadIdMarker", next) \o Leaf("", "NextKeyMarker", next)
    \o Leaf("", "NextUploadIdMarker", marker)
    \o Leaf("", "MaxUploads", max) \o Leaf("", "IsTruncated", it)

ListMultipartUploadsResponses ==
    \/ \E it \in Optional({<<"t","r","u","e">>}),
          uploads \in SeqsUpTo(LightUploads, MaxEntries) :
        response =
            Response("uploads",
                     Element("", "ListMultipartUploadsResult", <<>>,
                             ListUploadsHeader(it, <<>>, <<>>, <<>>)
                             \o uploads),
                     <<>>)
    \/ \E it \in Optional(TruncatedTexts),
          marker \in Optional({<<>>, <<"a","%","2","5">>}),
          next \in Optional({<<>>, <<"a","%","2","0","b">>}),
          max \in Optional({<<>>, <<"0">>, <<"5">>, <<"x">>}) :
        response =
            Response("uploads",
                     Element("", "ListMultipartUploadsResult", <<>>,
                             ListUploadsHeader(it, marker, next, max)),
                     <<>>)
    \/ \E key \in Optional({<<>>, <<"a","%","2","F","b">>}),
          id \in Optional({<<>>, <<"u","1">>}),
          initiator \in 0..3,
          owner \in 0..3,
          time \in Optional(StampTexts) :
        response =
            Response("uploads",
                     Element("", "ListMultipartUploadsResult", <<>>,
                         <<Element("", "Upload", <<>>,
                             Leaf("", "Key", key) \o Leaf("", "UploadId", id)
                             \o Person("", "Initiator", initiator)
                             \o Person("", "Owner", owner)
                             \o Leaf("", "StorageClass", id)
                             \o Leaf("", "Initiated", time))>>),
                     <<>>)

(* complete-multipart-upload results *)

VersionIdHeaders ==
    { <<>>, << <<"x-amz-version-id", <<"v","1">> >> >>,
      << <<"etag", <<"h">> >>, <<"x-amz-version-id", <<"v","2">> >> >> }

CompleteMultipartUploadResponses ==
    \E location \in Optional({<<"l">>}),
       key \in Optional({<<>>, <<"a">>}),
       etag \in Optional(ETagTexts),
       headers \in VersionIdHeaders :
        response =
            Response("complete",
                     Element("s3", "CompleteMultipartUploadResult", <<>>,
                             Leaf("s3", "Location", location)
                             \o Leaf("s3", "Bucket", location)
                             \o Leaf("s3", "Key", key)
                             \o Leaf("s3", "ETag", etag)),
                     headers)

ApiNames == {"objects", "buckets", "parts", "uploads", "complete"}

\* a body that is not XML, for each API
BrokenResponses ==
    \E api \in ApiNames : response = Response(api, NotWellFormed, <<>>)

\* the responses a parser may be handed
Responses ==
    \/ ListObjectsResponses
    \/ ListBucketsResponses
    \/ ListPartsResponses
    \/ ListMultipartUploadsResponses
    \/ CompleteMultipartUploadResponses
    \/ BrokenResponses

---------------------------------------------------------------------------
(* The state machine: a response is received, the parser of its API is     *)
(* applied to it once, and it either returns a result or raises.           *)

BucketNames == { <<"b","1">>, <<"b","2">> }

NoCall == [fn |-> "none", bucket_name |-> None]

NoResult == [raised |-> FALSE]

Init ==
    /\ Responses
    /\ call = NoCall
    /\ pc = "received"
    /\ result = NoResult

Return(fn, bucket_name, value) ==
    /\ call' = [fn |-> fn, bucket_name |-> bucket_name]
    /\ result' = value
    /\ pc' = IF value.raised THEN "raised" ELSE "returned"
    /\ UNCHANGED response

ListBuckets ==
    /\ pc = "received"
    /\ response.api = "buckets"
    /\ Return("ListAllMyBucketsResult.fromxml", None,
              ListAllMyBucketsResult_fromxml(ET_fromstring(response.data)))

ListObjects ==
    /\ pc = "received"
    /\ response.api = "objects"
    /\ \E bucket_name \in BucketNames :
          Return("parse_list_objects", StrV(bucket_name),
                 parse_list_objects(response, StrV(bucket_name)))

ListParts ==
    /\ pc = "received"
    /\ response.api = "parts"
    /\ Return("ListPartsResult", None, ListPartsResult(response))

ListMultipartUploads ==
    /\ pc = "received"
    /\ response.api = "uploads"
    /\ Return("ListMultipartUploadsResult", None,
              ListMultipartUploadsResult(response))

CompleteMultipartUpload ==
    /\ pc = "received"
    /\ response.api = "complete"
    /\ Return("CompleteMultipartUploadResult", None,
              CompleteMultipartUploadResult(response))

Next ==
    \/ ListBuckets
    \/ ListObjects
    \/ ListParts
    \/ ListMultipartUploads
    \/ CompleteMultipartUpload

Spec == Init /\ [][Next]_vars

---------------------------------------------------------------------------
(* Reading the response document, for the properties below *)

Root == response.data

ChildrenOf(element, tag) ==
    SelectSeq(element.children, LAMBDA child : child.tag = tag)

Has(element, tag) == ChildrenOf(element, tag) # <<>>

First(element, tag) == ChildrenOf(element, tag)[1]

TextOf(element, tag) == First(element, tag).text

\* the text of an optional child as a value
OptText(element, tag) ==
    IF Has(element, tag) THEN StrV(TextOf(element, tag)) ELSE None

\* a field under an optional Owner or Initiator element is missing
SubMissing(element, parent, tag) ==
    ~Has(element, parent) \/ ~Has(First(element, parent), tag)

Returned(fn) == pc = "returned" /\ call.fn = fn

\* the entry elements of an object listing in the order of the objects list
ExpectedEntries ==
    ChildrenOf(Root, "Contents") \o ChildrenOf(Root, "Version")
    \o ChildrenOf(Root, "CommonPrefixes") \o ChildrenOf(Root, "DeleteMarker")

\* the entry elements of an object listing in document order
DocumentEntries ==
    SelectSeq(Root.children,
              LAMBDA child : child.tag \in {"Contents", "Version",
                                            "CommonPrefixes", "DeleteMarker"})

\* the Bucket elements of a bucket listing
BucketEntries ==
    IF Has(Root, "Buckets") THEN ChildrenOf(First(Root, "Buckets"), "Bucket")
    ELSE <<>>

IsTrueSpelling(text) ==
    /\ Len(text) = 4
    /\ text[1] \in {"t", "T"}
    /\ text[2] \in {"r", "R"}
    /\ text[3] \in {"u", "U"}
    /\ text[4] \in {"e", "E"}

NoQuote(v) == v.t = "str" => \A i \in 1..Len(v.s) : v.s[i] # "\""

Unquoted(text) == StrV(SelectSeq(text, LAMBDA c : c # "\""))

IsIntOrNone(v) == v.t \in {"int", "none"}

\* value v of a field is None exactly when its element is missing
AbsentIff(missing, v) == (missing <=> v = None) /\ v.t # "raise"

---------------------------------------------------------------------------
(* C1 *)

NumContents == Len(ChildrenOf(Root, "Contents"))

C1_ExpectedToken ==
    IF Has(Root, "NextKeyMarker") THEN StrV(TextOf(Root, "NextKeyMarker"))
    ELSE IF Has(Root, "NextContinuationToken")
    THEN StrV(TextOf(Root, "NextContinuationToken"))
    ELSE IF Has(Root, "NextMarker") THEN StrV(TextOf(Root, "NextMarker"))
    ELSE IF result.is_truncated /\ NumContents > 0
    THEN result.objects[NumContents].object_name
    ELSE None

\* C1: the continuation token parse_list_objects returns is NextKeyMarker if
\* present, else NextContinuationToken, else NextMarker, else (only when
\* is_truncated) the object_name of the last Contents entry, else absent.
C1_ContinuationTokenPrecedence ==
    Returned("parse_list_objects")
        => result.continuation_token = C1_ExpectedToken

\* both NextKeyMarker=k1 and NextContinuationToken=t1, and the token is k1
C1_Witness ==
    /\ Returned("parse_list_objects")
    /\ OptText(Root, "NextKeyMarker") = StrV(<<"k","1">>)
    /\ OptText(Root, "NextContinuationToken") = StrV(<<"t","1">>)
    /\ result.continuation_token = StrV(<<"k","1">>)

(* C2 *)

\* an element of the response lacks a field the protocol requires
LacksRequired ==
    CASE response.api = "buckets" ->
           \E i \in 1..Len(BucketEntries) : ~Has(BucketEntries[i], "Name")
      [] response.api = "objects" ->
           \E i \in 1..Len(ExpectedEntries) :
              /\ ExpectedEntries[i].tag # "CommonPrefixes"
              /\ ~Has(ExpectedEntries[i], "Key")
      [] response.api = "parts" ->
           \E i \in 1..Len(ChildrenOf(Root, "Part")) :
              \/ ~Has(ChildrenOf(Root, "Part")[i], "PartNumber")
              \/ ~Has(ChildrenOf(Root, "Part")[i], "ETag")
      [] OTHER -> FALSE

\* C2: a parse whose document lacks a Bucket Name, an object Key or a Part
\* PartNumber or ETag fails and returns nothing, and no returned entity has
\* an absent name, object_name, part_number or etag.
C2_RequiredFieldsNeverAbsent ==
    /\ LacksRequired => pc # "returned"
    /\ Returned("ListAllMyBucketsResult.fromxml") =>
          \A i \in 1..Len(result.buckets) : result.buckets[i].name # None
    /\ Returned("parse_list_objects") =>
          \A i \in 1..Len(result.objects) :
             ExpectedEntries[i].tag # "CommonPrefixes"
                => result.objects[i].object_name # None
    /\ Returned("ListPartsResult") =>
          \A i \in 1..Len(result.parts) :
             /\ result.parts[i].part_number # None
             /\ result.parts[i].etag # None

(* C3 *)

EntryName(entry) ==
    IF entry.tag = "CommonPrefixes" THEN OptText(entry, "Prefix")
    ELSE OptText(entry, "Key")

\* C3: the objects list is the Contents entries in document order, then the
\* Version entries, then the CommonPrefixes entries, then the DeleteMarker
\* entries, one object per element, whatever their order in the document.
C3_ObjectsOrder ==
    Returned("parse_list_objects") =>
       /\ Len(result.objects) = Len(DocumentEntries)
       /\ Len(result.objects) = Len(ExpectedEntries)
       /\ \A i \in 1..Len(ExpectedEntries) :
             /\ result.objects[i].object_name = EntryName(ExpectedEntries[i])
             /\ result.objects[i].version_id
                   = OptText(ExpectedEntries[i], "VersionId")
             /\ (result.objects[i].size = None)
                   <=> ~Has(ExpectedEntries[i], "Size")

\* three entries that the document does not list kind by kind
C3_Witness ==
    /\ Returned("parse_list_objects")
    /\ Len(result.objects) = 3
    /\ DocumentEntries # ExpectedEntries
    /\ DocumentEntries[1].tag = "DeleteMarker"
    /\ DocumentEntries[3].tag = "Contents"

(* C4 *)

PersonAbsentIff(element, parent, id, name) ==
    /\ AbsentIff(SubMissing(element, parent, "ID"), id)
    /\ AbsentIff(SubMissing(element, parent, "DisplayName"), name)

C4_Object(element, obj) ==
    /\ AbsentIff(~Has(element, "LastModified"), obj.last_modified)
    /\ AbsentIff(~Has(element, "ETag"), obj.etag)
    /\ AbsentIff(~Has(element, "Size"), obj.size)
    /\ AbsentIff(~Has(element, "VersionId"), obj.version_id)
    /\ AbsentIff(~Has(element, "IsLatest"), obj.is_latest)
    /\ AbsentIff(~Has(element, "StorageClass"), obj.storage_class)
    /\ PersonAbsentIff(element, "Owner", obj.owner_id, obj.owner_name)
    /\ obj.content_type = None

C4_Part(element, part) ==
    /\ AbsentIff(~Has(element, "LastModified"), part.last_modified)
    /\ AbsentIff(~Has(element, "Size"), part.size)

C4_Upload(element, upload) ==
    /\ AbsentIff(~Has(element, "UploadId"), upload.upload_id)
    /\ AbsentIff(~Has(element, "StorageClass"), upload.storage_class)
    /\ AbsentIff(~Has(element, "Initiated"), upload.initiated_time)
    /\ PersonAbsentIff(element, "Initiator",
                       upload.initiator_id, upload.initiator_name)
    /\ PersonAbsentIff(element, "Owner", upload.owner_id, upload.owner_name)

C4_ListParts(element, r) ==
    /\ AbsentIff(~Has(element, "Bucket"), r.bucket_name)
    /\ AbsentIff(~Has(element, "Key"), r.object_name)
    /\ AbsentIff(~Has(element, "StorageClass"), r.storage_class)
    /\ AbsentIff(~Has(element, "PartNumberMarker"), r.part_number_marker)
    /\ AbsentIff(~Has(element, "NextPartNumberMarker"),
                 r.next_part_number_marker)
    /\ AbsentIff(~Has(element, "MaxParts"), r.max_parts)
    /\ PersonAbsentIff(element, "Initiator", r.initiator_id, r.initiator_name)
    /\ PersonAbsentIff(element, "Owner", r.owner_id, r.owner_name)

C4_ListUploads(element, r) ==
    /\ AbsentIff(~Has(element, "Bucket"), r.bucket_name)
    /\ AbsentIff(~Has(element, "KeyMarker"), r.key_marker)
    /\ AbsentIff(~Has(element, "UploadIdMarker"), r.upload_id_marker)
    /\ AbsentIff(~Has(element, "NextKeyMarker"), r.next_key_marker)
    /\ AbsentIff(~Has(element, "NextUploadIdMarker"), r.next_upload_id_marker)
    /\ AbsentIff(~Has(element, "MaxUploads"), r.max_uploads)

C4_Complete(element, r) ==
    /\ AbsentIff(~Has(element, "Bucket"), r.bucket_name)
    /\ AbsentIff(~Has(element, "Key"), r.object_name)
    /\ AbsentIff(~Has(element, "Location"), r.location)
    /\ AbsentIff(~Has(element, "ETag"), r.etag)

\* C4: in every returned Object, Part, Upload, ListPartsResult,
\* ListMultipartUploadsResult and CompleteMultipartUploadResult, an optional
\* scalar field is the absent value exactly when its XML element is missing:
\* never an empty string or zero for a missing element, and never absent for
\* an element that is present, even when empty or zero.
C4_AbsentFieldDegradation ==
    /\ Returned("parse_list_objects") =>
          \A i \in 1..Len(result.objects) :
             ExpectedEntries[i].tag # "CommonPrefixes"
                => C4_Object(ExpectedEntries[i], result.objects[i])
    /\ Returned("ListPartsResult") =>
          /\ C4_ListParts(Root, result.fields)
          /\ \A i \in 1..Len(result.parts) :
                C4_Part(ChildrenOf(Root, "Part")[i], result.parts[i])
    /\ Returned("ListMultipartUploadsResult") =>
          /\ C4_ListUploads(Root, result.fields)
          /\ \A i \in 1..Len(result.uploads) :
                C4_Upload(ChildrenOf(Root, "Upload")[i], result.uploads[i])
    /\ Returned("CompleteMultipartUploadResult") => C4_Complete(Root, result)

\* an Object without Owner and Size elements but with an ETag
C4_Witness ==
    /\ Returned("parse_list_objects")
    /\ Len(result.objects) = 1
    /\ ~Has(ExpectedEntries[1], "Owner")
    /\ ~Has(ExpectedEntries[1], "Size")
    /\ Has(ExpectedEntries[1], "ETag")
    /\ result.objects[1].owner_id = None
    /\ result.objects[1].owner_name = None
    /\ result.objects[1].size = None
    /\ result.objects[1].etag # None

(* C5 *)

\* C5: in the three paginated results is_truncated is true exactly when the
\* IsTruncated element is present and its text is "true" in any letter case.
C5_IsTruncated ==
    (pc = "returned" /\ response.api \in {"objects", "parts", "uploads"})
        => (result.is_truncated
               <=> (Has(Root, "IsTruncated")
                    /\ IsTrueSpelling(TextOf(Root, "IsTruncated"))))

\* IsTruncated spelled TRUE in an object listing
C5_Witness ==
    /\ Returned("parse_list_objects")
    /\ OptText(Root, "IsTruncated") = StrV(<<"T","R","U","E">>)
    /\ result.is_truncated

(* C6 *)

C6_ETag(element, etag) ==
    /\ NoQuote(etag)
    /\ Has(element, "ETag") => etag = Unquoted(TextOf(element, "ETag"))
    /\ ~Has(element, "ETag") => etag = None

\* C6: the etag of every returned Object, Part and
\* CompleteMultipartUploadResult is the ETag text without its double quotes,
\* and an absent ETag stays absent.
C6_ETagWithoutQuotes ==
    /\ Returned("parse_list_objects") =>
          \A i \in 1..Len(result.objects) :
             ExpectedEntries[i].tag # "CommonPrefixes"
                => C6_ETag(ExpectedEntries[i], result.objects[i].etag)
    /\ Returned("ListPartsResult") =>
          \A i \in 1..Len(result.parts) :
             C6_ETag(ChildrenOf(Root, "Part")[i], result.parts[i].etag)
    /\ Returned("CompleteMultipartUploadResult") =>
          C6_ETag(Root, result.etag)

\* an Object whose ETag element is "e1" in double quotes
C6_Witness ==
    /\ Returned("parse_list_objects")
    /\ Len(result.objects) = 1
    /\ OptText(ExpectedEntries[1], "ETag") = StrV(<<"\"","e","1","\"">>)
    /\ result.objects[1].etag = StrV(<<"e","1">>)

(* C7 *)

\* C7: part_number is an integer, and size, next_part_number_marker,
\* max_parts and max_uploads are each an integer or absent, never a string.
C7_NumericFieldsAreIntegers ==
    /\ Returned("ListPartsResult") =>
          /\ \A i \in 1..Len(result.parts) :
                /\ result.parts[i].part_number.t = "int"
                /\ IsIntOrNone(result.parts[i].size)
          /\ IsIntOrNone(result.fields.next_part_number_marker)
          /\ IsIntOrNone(result.fields.max_parts)
    /\ Returned("parse_list_objects") =>
          \A i \in 1..Len(result.objects) : IsIntOrNone(result.objects[i].size)
    /\ Returned("ListMultipartUploadsResult") =>
          IsIntOrNone(result.fields.max_uploads)

(* C8 *)

C8_Name(element, bucket) ==
    Has(element, "Name") /\ bucket.name = StrV(TextOf(element, "Name"))

C9_OthersAbsent(obj) ==
    /\ obj.last_modified = None
    /\ obj.etag = None
    /\ obj.size = None
    /\ obj.metadata = None
    /\ obj.version_id = None
    /\ obj.is_latest = None
    /\ obj.storage_class = None
    /\ obj.owner_id = None
    /\ obj.owner_name = None
    /\ obj.content_type = None
    /\ ~is_delete_marker(obj)

\* C9 as stated: an entry built from CommonPrefixes has object_name the
\* Prefix text and every other field, bucket_name included, absent.
C9_PrefixEntryAsStated ==
    Returned("parse_list_objects") =>
       \A i \in 1..Len(result.objects) :
          ExpectedEntries[i].tag = "CommonPrefixes" =>
             /\ result.objects[i].object_name
                   = OptText(ExpectedEntries[i], "Prefix")
             /\ result.objects[i].bucket_name = None
             /\ C9_OthersAbsent(result.objects[i])

\* C9 amended: an entry built from CommonPrefixes has object_name the Prefix
\* text and bucket_name the bucket name given to parse_list_objects; every
\* other field is absent, and it is not a delete marker.
C9_PrefixEntry ==
    Returned("parse_list_objects") =>
       \A i \in 1..Len(result.objects) :
          ExpectedEntries[i].tag = "CommonPrefixes" =>
             /\ result.objects[i].object_name
                   = OptText(ExpectedEntries[i], "Prefix")
             /\ result.objects[i].bucket_name = call.bucket_name
             /\ C9_OthersAbsent(result.objects[i])

\* a listing of bucket b2 with the prefix z/ after a version
C9_Witness ==
    /\ Returned("parse_list_objects")
    /\ call.bucket_name = StrV(<<"b","2">>)
    /\ Len(result.objects) = 2
    /\ ExpectedEntries[1].tag = "Version"
    /\ ExpectedEntries[2].tag = "CommonPrefixes"
    /\ result.objects[2].object_name = StrV(<<"z","/">>)
    /\ result.objects[2].bucket_name = StrV(<<"b","2">>)

(* C10 *)

\* C10: whenever parse_list_objects returns is_truncated true it also
\* returns a continuation token.
C10_TruncatedHasToken ==
    (Returned("parse_list_objects") /\ result.is_truncated)
        => result.continuation_token # None

====
